---- MODULE Spec2Model ----
(***************************************************************************)
(* ASFEniCSx: the sample container (sampling.py) and the active-subspace   *)
(* engine (asfenicsx.py) as a state machine.                               *)
(*                                                                         *)
(* An object is modelled by its instance dictionary: a function from       *)
(* attribute names to values, so that hasattr() is a test on the domain    *)
(* of that function together with the names the class itself defines.      *)
(* A numpy matrix is a sequence of rows, each row a sequence of numbers;    *)
(* Python's 0-based index i is position i+1 of the sequence.                *)
(***************************************************************************)
EXTENDS Integers, Sequences, FiniteSets, TLC

VARIABLES smp, eng, ret

vars == <<smp, eng, ret>>

(***************************************************************************)
(* Bounds of the model.                                                    *)
(***************************************************************************)
MaxM == 2

MaxBoot == 2

\* dimensions m of the parameter space the model explores
Dims == {1, 2}

\* sample coordinates, normalised to [-1, 1]
Coord == {-1, 1}

\* scalar quantity-of-interest values
Scalars == {0, 1}

(***************************************************************************)
(* Python helpers.                                                         *)
(***************************************************************************)
Min2(a, b) == IF a <= b THEN a ELSE b

Max2(a, b) == IF a >= b THEN a ELSE b

Range(s) == {s[i] : i \in DOMAIN s}

\* all sequences over S with length in lo..hi
SeqsOf(S, lo, hi) == UNION {[1..n -> S] : n \in lo..hi}

\* hasattr(obj, name): an instance attribute, or a name the class defines
hasattr(obj, classNames, name) == name \in (DOMAIN obj) \cup classNames

\* obj.name = value: binds (or rebinds) an instance attribute
setattr(obj, name, value) ==
    [a \in (DOMAIN obj) \cup {name} |-> IF a = name THEN value ELSE obj[a]]

\* the names class sampling defines (methods)
SamplingNames ==
    {"random_uniform", "extract", "replace", "add_sample", "samples",
     "assign_values", "assign_value", "extract_value", "values", "index",
     "save", "load"}

\* the names class ASFEniCSx defines (methods)
EngineNames ==
    {"eigenvalues", "evaluate_gradients", "covariance", "estimation",
     "partition", "bootstrap", "calculate_eigenpairs", "plot_eigenvalues",
     "plot_subspace", "plot_sufficient_summary", "plot_eigenvectors"}

\* np.shape of a matrix held as a sequence of rows (rows of equal length)
Rows(A) == Len(A)

Cols(A) == IF Len(A) = 0 THEN 0 ELSE Len(A[1])

\* the matrices of shape (M, m) over S
Arrays(S, M, m) == [1..M -> [1..m -> S]]

(***************************************************************************)
(* The exceptions the code raises, by type and message.                    *)
(***************************************************************************)
NoError == "none"

IndexOutOfBounds == "AssertionError: Index out of bounds"

SampleWrongShape == "AssertionError: Sample has wrong shape"

ArrayWrongShape == "AssertionError: Array has wrong shape"

SamplesExist == "AttributeError: Samples already exist. Use overwrite=True to overwrite them"

ValuesNotAssigned == "AssertionError: Values have not been assigned yet"

\* numpy's own refusal of a position past the end of the value array
IndexErrorValues == "IndexError: index is out of bounds for axis 0"

NotCallable == "AssertionError: Function must be callable"

(***************************************************************************)
(* sampling: the sample container.                                         *)
(***************************************************************************)
\* __init__(M, m): the instance dictionary after construction
sampling_init(M, m, array) ==
    [a \in {"object_type", "M", "m", "_array", "_debug"} |->
        CASE a = "object_type" -> "sampling"
          [] a = "M" -> M
          [] a = "m" -> m
          [] a = "_array" -> array
          [] OTHER -> TRUE]

\* the callables a caller hands to assign_values
Callables == {"first_positive"}

\* f(x) for a callable f and a sample x
Apply(f, x) == IF x[1] = 1 THEN 1 ELSE 0

\* the assert 0 <= index < self.M of every index-taking method
InBounds(index) == 0 <= index /\ index < smp["M"]

\* indices a caller passes: below, inside and above [0, M)
Indices == -1 .. MaxM

\* sample vectors a caller passes: right and wrong length
Vectors == UNION {[1..n -> Coord] : n \in Dims}

random_uniform(overwrite, fresh) ==
    /\ fresh \in Arrays(Coord, smp["M"], smp["m"])
    /\ IF ~hasattr(smp, SamplingNames, "_array") \/ overwrite
         THEN /\ smp' = setattr(smp, "_array", fresh)
              /\ ret' = [op |-> "random_uniform", err |-> NoError]
         ELSE /\ smp' = smp
              /\ ret' = [op |-> "random_uniform", err |-> SamplesExist]
    /\ UNCHANGED eng

extract(index) ==
    /\ IF InBounds(index)
         THEN ret' = [op |-> "extract", index |-> index, err |-> NoError,
                      val |-> smp["_array"][index + 1]]
         ELSE ret' = [op |-> "extract", index |-> index, err |-> IndexOutOfBounds]
    /\ UNCHANGED <<smp, eng>>

replace(index, sample) ==
    /\ IF ~InBounds(index)
         THEN /\ ret' = [op |-> "replace", index |-> index, err |-> IndexOutOfBounds]
              /\ smp' = smp
         ELSE IF Len(sample) # smp["m"]
         THEN /\ ret' = [op |-> "replace", index |-> index, err |-> SampleWrongShape]
              /\ smp' = smp
         ELSE /\ ret' = [op |-> "replace", index |-> index, err |-> NoError]
              /\ smp' = [smp EXCEPT !["_array"][index + 1] = sample]
    /\ UNCHANGED eng

\* (mutant: the sample is stacked above the array, np.vstack((sample, self._array)))
add_sample_on_top(isNone, sample) ==
    /\ smp["M"] < MaxM
    /\ isNone => Len(sample) = smp["m"]
    /\ IF ~isNone /\ Len(sample) # smp["m"]
         THEN /\ ret' = [op |-> "add_sample", err |-> SampleWrongShape,
                          isNone |-> isNone, sample |-> sample]
              /\ smp' = smp
         ELSE /\ ret' = [op |-> "add_sample", err |-> NoError,
                          isNone |-> isNone, sample |-> sample]
              /\ smp' = [smp EXCEPT !["_array"] = <<sample>> \o @,
                                    !["M"] = @ + 1]
    /\ UNCHANGED eng

\* add_sample(None): the vector is drawn; add_sample(sample): it is checked
add_sample(isNone, sample) ==
    /\ smp["M"] < MaxM
    /\ isNone => Len(sample) = smp["m"]
    /\ IF ~isNone /\ Len(sample) # smp["m"]
         THEN /\ ret' = [op |-> "add_sample", err |-> SampleWrongShape,
                          isNone |-> isNone, sample |-> sample]
              /\ smp' = smp
         ELSE /\ ret' = [op |-> "add_sample", err |-> NoError,
                          isNone |-> isNone, sample |-> sample]
              /\ smp' = [smp EXCEPT !["_array"] = Append(@, sample),
                                    !["M"] = @ + 1]
    /\ UNCHANGED eng

assign_values(f) ==
    /\ IF f \notin Callables
         THEN /\ ret' = [op |-> "assign_values", err |-> NotCallable]
              /\ smp' = smp
         ELSE /\ ret' = [op |-> "assign_values", err |-> NoError]
              /\ smp' = setattr(smp, "_values",
                          [i \in 1..Len(smp["_array"]) |-> Apply(f, smp["_array"][i])])
    /\ UNCHANGED eng

\* np.zeros(self.M) with one entry written
ZerosWith(n, pos, value) == [i \in 1..n |-> IF i = pos THEN value ELSE 0]

assign_value(index, value) ==
    /\ IF ~InBounds(index)
         THEN /\ ret' = [op |-> "assign_value", index |-> index, err |-> IndexOutOfBounds]
              /\ smp' = smp
         ELSE IF ~hasattr(smp, SamplingNames, "_values")
         THEN /\ ret' = [op |-> "assign_value", index |-> index, err |-> NoError]
              /\ smp' = setattr(smp, "_values", ZerosWith(smp["M"], index + 1, value))
         ELSE IF index + 1 > Len(smp["_values"])
         THEN \* line 176: the value array is shorter than M
              /\ ret' = [op |-> "assign_value", index |-> index, err |-> IndexErrorValues]
              /\ smp' = smp
         ELSE /\ ret' = [op |-> "assign_value", index |-> index, err |-> NoError]
              /\ smp' = [smp EXCEPT !["_values"][index + 1] = value]
    /\ UNCHANGED eng

extract_value(index) ==
    /\ IF ~InBounds(index)
         THEN ret' = [op |-> "extract_value", index |-> index, err |-> IndexOutOfBounds]
         ELSE IF ~hasattr(smp, SamplingNames, "_values")
         THEN ret' = [op |-> "extract_value", index |-> index, err |-> ValuesNotAssigned]
         ELSE IF index + 1 > Len(smp["_values"])
         THEN ret' = [op |-> "extract_value", index |-> index, err |-> IndexErrorValues]
         ELSE ret' = [op |-> "extract_value", index |-> index, err |-> NoError,
                      val |-> smp["_values"][index + 1]]
    /\ UNCHANGED <<smp, eng>>

SampleNotInArray == "AssertionError: Sample is not in the sampling array"

\* self._array == sample: the comparison is made entry by entry
EqualEntries(array, sample) ==
    [i \in 1..Len(array) |-> [j \in 1..Len(sample) |-> array[i][j] = sample[j]]]

\* sample in self._array: some entry of the comparison is True
Contains(array, sample) ==
    \E i \in 1..Len(array) : \E j \in 1..Len(sample) : EqualEntries(array, sample)[i][j]

\* np.where(mask)[0][0]: the row (0-based) of the first True entry
FirstTrueRow(mask) ==
    (CHOOSE i \in 1..Len(mask) :
        /\ \E j \in 1..Len(mask[i]) : mask[i][j]
        /\ \A h \in 1..(i - 1) : \A j \in 1..Len(mask[h]) : ~mask[h][j]) - 1

index(sample) ==
    /\ IF Len(sample) # smp["m"]
         THEN ret' = [op |-> "index", sample |-> sample, err |-> SampleWrongShape]
         ELSE IF ~Contains(smp["_array"], sample)
         THEN ret' = [op |-> "index", sample |-> sample, err |-> SampleNotInArray]
         ELSE ret' = [op |-> "index", sample |-> sample, err |-> NoError,
                      val |-> FirstTrueRow(EqualEntries(smp["_array"], sample))]
    /\ UNCHANGED <<smp, eng>>

\* the mappings a caller hands to load: a coordinate array of some shape
\* and, optionally, a value array of some length
LoadArrays == UNION {[1..Md -> [1..md -> {c}]] : Md \in 1..MaxM, md \in Dims, c \in Coord}

LoadValues == UNION {[1..L -> {v}] : L \in 1..MaxM, v \in Scalars}

load(array, hasValues, values, overwrite) ==
    /\ IF ~(Rows(array) = smp["M"] /\ Cols(array) = smp["m"])
         THEN /\ ret' = [op |-> "load", err |-> ArrayWrongShape,
                          shape |-> <<Rows(array), Cols(array)>>, overwrite |-> overwrite]
              /\ smp' = smp
         ELSE IF ~hasattr(smp, SamplingNames, "_array") \/ overwrite
         THEN /\ ret' = [op |-> "load", err |-> NoError,
                          shape |-> <<Rows(array), Cols(array)>>, overwrite |-> overwrite]
              /\ smp' = IF hasValues
                          THEN setattr(setattr(smp, "_array", array), "_values", values)
                          ELSE setattr(smp, "_array", array)
         ELSE /\ ret' = [op |-> "load", err |-> SamplesExist,
                          shape |-> <<Rows(array), Cols(array)>>, overwrite |-> overwrite]
              /\ smp' = smp
    /\ UNCHANGED eng

\* (mutant: the value array of the mapping is not taken over)
sampling_load_without_values(obj, data, overwrite) ==
    IF ~(Rows(data["_array"]) = obj["M"] /\ Cols(data["_array"]) = obj["m"])
      THEN [err |-> ArrayWrongShape, obj |-> obj]
    ELSE IF ~hasattr(obj, SamplingNames, "_array") \/ overwrite
      THEN [err |-> NoError, obj |-> setattr(obj, "_array", data["_array"])]
    ELSE [err |-> SamplesExist, obj |-> obj]

\* sampling.load(data, overwrite) on the object obj: the error it raises and
\* the object it leaves
sampling_load(obj, data, overwrite) ==
    IF ~(Rows(data["_array"]) = obj["M"] /\ Cols(data["_array"]) = obj["m"])
      THEN [err |-> ArrayWrongShape, obj |-> obj]
    ELSE IF ~hasattr(obj, SamplingNames, "_array") \/ overwrite
      THEN [err |-> NoError,
            obj |-> IF "_values" \in DOMAIN data
                      THEN setattr(setattr(obj, "_array", data["_array"]),
                                   "_values", data["_values"])
                      ELSE setattr(obj, "_array", data["_array"])]
    ELSE [err |-> SamplesExist, obj |-> obj]

FilenameNotString == "AssertionError: Filename must be a string"

\* the attributes of a sampling object that hold numpy arrays
ArrayAttributes == {"_array", "_values"}

\* NumpyEncoder.default(ndarray) followed by json.dump: an array becomes a
\* JSON array of JSON numbers (nested for a matrix)
JsonNumber(x) == [json |-> "number", n |-> x]

JsonArray(items) == [json |-> "array", items |-> items]

\* json.dump(self.__dict__, f, cls=NumpyEncoder): the document written
JsonDump(obj) ==
    [a \in DOMAIN obj |->
        CASE a = "_array" ->
               JsonArray([i \in 1..Len(obj[a]) |->
                  JsonArray([j \in 1..Len(obj[a][i]) |-> JsonNumber(obj[a][i][j])])])
          [] a = "_values" ->
               JsonArray([i \in 1..Len(obj[a]) |-> JsonNumber(obj[a][i])])
          [] OTHER -> [json |-> "scalar", value |-> obj[a]]]

\* json.load(f): a JSON array becomes a list, a JSON number a number
JsonLoad(doc) ==
    [a \in DOMAIN doc |->
        CASE a = "_array" ->
               [i \in 1..Len(doc[a].items) |->
                  [j \in 1..Len(doc[a].items[i].items) |-> doc[a].items[i].items[j].n]]
          [] a = "_values" ->
               [i \in 1..Len(doc[a].items) |-> doc[a].items[i].n]
          [] OTHER -> doc[a].value]

\* save(filename); file is the document written
save(isString) ==
    /\ IF ~isString
         THEN ret' = [op |-> "save", err |-> FilenameNotString]
         ELSE ret' = [op |-> "save", err |-> NoError, file |-> JsonDump(smp)]
    /\ UNCHANGED <<smp, eng>>

\* the caller reads the saved file, constructs sampling(M, m) anew (drawn is
\* what its constructor drew) and loads the mapping into it; smp is the new
\* object from here on, and original is what the saved object held
load_saved(drawn, overwrite) ==
    /\ ret.op = "save"
    /\ ret.err = NoError
    /\ drawn \in Arrays(Coord, smp["M"], smp["m"])
    /\ \E out \in {sampling_load(sampling_init(smp["M"], smp["m"], drawn),
                                 JsonLoad(ret.file), overwrite)} :
         /\ smp' = out.obj
         /\ ret' = [op |-> "load_saved", err |-> out.err, overwrite |-> overwrite,
                    drawn |-> drawn,
                    original |-> [a \in (DOMAIN smp) \cap ArrayAttributes |-> smp[a]]]
    /\ UNCHANGED eng

(***************************************************************************)
(* Numbers.  The gradients the Functional returns are integer vectors      *)
(* whose pairwise products are multiples of 36, so that dividing a sum of  *)
(* outer products by M <= 4 is exact.  An eigenvector matrix is held        *)
(* scaled by 5: its columns are integer vectors of squared length 25, so    *)
(* that the unit vectors (3/5, 4/5) are representable beside the axes.      *)
(***************************************************************************)
RECURSIVE SumTo(_, _)
\* f[1] + ... + f[n]
SumTo(f, n) == IF n = 0 THEN 0 ELSE f[n] + SumTo(f, n - 1)

Dot(u, v) == SumTo([i \in 1..Len(u) |-> u[i] * v[i]], Len(u))

Abs(x) == IF x < 0 THEN -x ELSE x

\* np.sign
Sign(x) == IF x > 0 THEN 1 ELSE IF x < 0 THEN -1 ELSE 0

\* column j (1-based) of a matrix
Column(A, j) == [i \in 1..Rows(A) |-> A[i][j]]

\* the matrix whose columns are the vectors of the sequence cs
FromColumns(cs) == [i \in 1..Len(cs[1]) |-> [j \in 1..Len(cs) |-> cs[j][i]]]

\* the permutations of 1..n, as sequences
Perms(n) == {p \in [1..n -> 1..n] : \A a, b \in 1..n : a # b => p[a] # p[b]}

\* the integer vectors of squared length 25: the unit vectors, scaled by 5
UnitGrid1 == {<<5>>, <<-5>>}

UnitGrid2 == {v \in [1..2 -> -5..5] : v[1] * v[1] + v[2] * v[2] = 25}

\* the orthonormal bases (scaled by 5), as sequences of columns
Frames1 == {<<v>> : v \in UnitGrid1}

Frames2 == {f \in [1..2 -> UnitGrid2] : Dot(f[1], f[2]) = 0}

Frames(n) == IF n = 1 THEN Frames1 ELSE Frames2

\* matrix times vector
MatVec(A, v) == [i \in 1..Rows(A) |-> Dot(A[i], v)]

(***************************************************************************)
(* The Functional the caller constructs the engine with: what its gradient *)
(* method answers for a sample (an input of evaluate_gradients, line 92).  *)
(***************************************************************************)
gradient(x) ==
    IF Len(x) = 1
      THEN IF x[1] = 1 THEN <<6>> ELSE <<-12>>
      ELSE IF x[1] = x[2] THEN <<18 * x[1], 24 * x[1]>>
                          ELSE <<24 * x[1], -18 * x[1]>>

\* gradient rows a caller may hand to covariance directly
GradRows(m) == IF m = 1 THEN {<<0>>, <<6>>, <<-12>>}
                        ELSE {<<0, 0>>, <<18, 24>>, <<24, -18>>}

(***************************************************************************)
(* ASFEniCSx: the engine.                                                  *)
(***************************************************************************)
\* __init__(k, function, samples): function and samples are references to
\* the collaborators; the sample container is the variable smp
engine_init(k) ==
    [a \in {"k", "_debug"} |-> IF a = "k" THEN k ELSE TRUE]

IndexErrorRows == "IndexError: index is out of bounds for axis 0"

NoEigenvalues == "AttributeError: 'ASFEniCSx' object has no attribute '_eigenvalues'"

NoEigenvectors == "AttributeError: 'ASFEniCSx' object has no attribute '_eigenvectors'"

\* raise("...") of a string: Python refuses to raise a non-exception
RaiseOfString == "TypeError: exceptions must derive from BaseException"

ZeroSizeReduction == "ValueError: zero-size array to reduction operation maximum which has no identity"

\* the bounds a caller declares on the sample container: one (low, high)
\* pair per dimension, of half-width 1, 2 or 3
BoundPairs == {<<-1, 1>>, <<0, 4>>, <<-3, 3>>}

\* samples._bounds = bounds, assigned by the caller that declares bounds
declare_bounds(bounds) ==
    /\ bounds \in [1..smp["m"] -> BoundPairs]
    /\ smp' = setattr(smp, "_bounds", bounds)
    /\ ret' = [op |-> "declare_bounds", err |-> NoError]
    /\ UNCHANGED eng

\* (mutant: the row is multiplied by the whole width of the bounds)
Rescale_by_width(row) ==
    IF hasattr(smp, SamplingNames, "_bounds")
      THEN [j \in 1..Len(row) |-> row[j] * (smp["_bounds"][j][2] - smp["_bounds"][j][1])]
      ELSE row

\* the chain-rule rescaling of one gradient row by the half-widths of _bounds
Rescale(row) ==
    IF hasattr(smp, SamplingNames, "_bounds")
      THEN [j \in 1..Len(row) |->
              (row[j] * (smp["_bounds"][j][2] - smp["_bounds"][j][1])) \div 2]
      ELSE row

\* the matrix evaluate_gradients builds: one Functional gradient per sample
GradientMatrix ==
    [i \in 1..smp["M"] |-> Rescale(gradient(smp["_array"][i]))]

\* np.outer(g, g)
Outer(g) == [a \in 1..Len(g) |-> [b \in 1..Len(g) |-> g[a] * g[b]]]

RECURSIVE SumOuter(_, _, _)
\* the accumulation loop of covariance over rows 0..n-1 of G
SumOuter(G, n, m) ==
    IF n = 0 THEN [a \in 1..m |-> [b \in 1..m |-> 0]]
    ELSE LET acc == SumOuter(G, n - 1, m)
             o == Outer(G[n])
         IN [a \in 1..m |-> [b \in 1..m |-> acc[a][b] + o[a][b]]]

\* (mutant: the sum is divided by the dimension m instead of the sample count M)
covariance_by_m(G) ==
    IF Rows(G) < smp["M"]
      THEN [err |-> IndexErrorRows, val |-> <<>>]
      ELSE LET total == SumOuter(G, smp["M"], smp["m"])
           IN [err |-> NoError,
               val |-> [a \in 1..smp["m"] |-> [b \in 1..smp["m"] |->
                           total[a][b] \div smp["m"]]]]

\* covariance(gradients): the loop runs over range(self.samples.M)
covariance(G) ==
    IF Rows(G) < smp["M"]
      THEN [err |-> IndexErrorRows, val |-> <<>>]
      ELSE LET total == SumOuter(G, smp["M"], smp["m"])
           IN [err |-> NoError,
               val |-> [a \in 1..smp["m"] |-> [b \in 1..smp["m"] |->
                           total[a][b] \div smp["M"]]]]

\* np.linalg.eigh(matrix): every answer the solver's contract allows, within
\* the grid: eigenvalues ascending, column j a unit eigenvector for e[j]
Eigh(matrix) ==
    LET n == Len(matrix)
        IsEigenpair(w, Aw) ==
            \A i \in 1..n : 25 * Aw[i] = Dot(w, Aw) * w[i]
        Value(w) == Dot(w, MatVec(matrix, w)) \div 25
    IN {[e |-> [j \in 1..n |-> Value(f[j])], W |-> FromColumns(f)] :
          f \in {g \in Frames(n) :
                   /\ \A j \in 1..n : \E Aw \in {MatVec(matrix, g[j])} :
                                         IsEigenpair(g[j], Aw)
                   /\ \A j \in 1..(n - 1) : Value(g[j]) <= Value(g[j + 1])}}

\* e.argsort(): the orders that sort e ascending (ties in either order)
ArgSorts(e) ==
    {p \in Perms(Len(e)) : \A a \in 1..(Len(e) - 1) : e[p[a]] <= e[p[a + 1]]}

\* [::-1]
Reversed(p) == [a \in 1..Len(p) |-> p[Len(p) + 1 - a]]

\* (mutant: the [::-1] is missing, the eigenvalues come out ascending)
calculate_eigenpairs_ascending(sol, p) ==
    LET n == Len(sol.e)
        e0 == [j \in 1..n |-> Abs(sol.e[j])]
        e1 == [j \in 1..n |-> e0[p[j]]]
        W1 == [i \in 1..n |-> [j \in 1..n |-> sol.W[i][p[j]]]]
        normalization == [j \in 1..n |-> IF Sign(W1[1][j]) = 0 THEN 1 ELSE Sign(W1[1][j])]
    IN [e |-> e1, W |-> [i \in 1..n |-> [j \in 1..n |-> W1[i][j] * normalization[j]]]]

\* (mutant: the signs multiply the rows, W * normalization[:, None])
calculate_eigenpairs_rows(sol, p) ==
    LET n == Len(sol.e)
        e0 == [j \in 1..n |-> Abs(sol.e[j])]
        idx == Reversed(p)
        e1 == [j \in 1..n |-> e0[idx[j]]]
        W1 == [i \in 1..n |-> [j \in 1..n |-> sol.W[i][idx[j]]]]
        normalization == [j \in 1..n |-> IF Sign(W1[1][j]) = 0 THEN 1 ELSE Sign(W1[1][j])]
    IN [e |-> e1, W |-> [i \in 1..n |-> [j \in 1..n |-> W1[i][j] * normalization[i]]]]

\* calculate_eigenpairs after the solver answered sol and argsort answered p
calculate_eigenpairs(sol, p) ==
    LET n == Len(sol.e)
        e0 == [j \in 1..n |-> Abs(sol.e[j])]
        idx == Reversed(p)
        e1 == [j \in 1..n |-> e0[idx[j]]]
        W1 == [i \in 1..n |-> [j \in 1..n |-> sol.W[i][idx[j]]]]
        normalization == [j \in 1..n |-> IF Sign(W1[1][j]) = 0 THEN 1 ELSE Sign(W1[1][j])]
    IN [e |-> e1, W |-> [i \in 1..n |-> [j \in 1..n |-> W1[i][j] * normalization[j]]]]

\* abs(e)
AbsAll(e) == [j \in 1..Len(e) |-> Abs(e[j])]

\* every (e, W) calculate_eigenpairs can return for a matrix
Eigenpairs(matrix) ==
    UNION {UNION {{calculate_eigenpairs(sol, p) : p \in ArgSorts(AbsAll(sol.e))} :
                    sol \in Eigh(A)} : A \in {matrix}}

\* the symmetric matrices a caller hands to calculate_eigenpairs: size 1,
\* and size 2 with eigenvalues 25*l1, 25*l2 along an orthonormal basis of
\* the grid (negative, zero, repeated and opposite eigenvalues included)
SymMatrices ==
    {<<<<c>>>> : c \in -2..2} \cup
    {[a \in 1..2 |-> [b \in 1..2 |->
        l[1] * f[1][a] * f[1][b] + l[2] * f[2][a] * f[2][b]]] :
       f \in Frames2, l \in [1..2 -> -2..1]}

\* a Python slice bound n on an axis of length len, as a count of leading entries
SliceStop(n, len) == IF n < 0 THEN Max2(n + len, 0) ELSE Min2(n, len)

\* A[:, :n] and A[:, n:]
\* (mutant: the second block starts one column late, A[:, n+1:])
ColumnsFromNext(A, n) ==
    [i \in 1..Rows(A) |-> SubSeq(A[i], SliceStop(n, Cols(A)) + 2, Cols(A))]

ColumnsTo(A, n) ==
    [i \in 1..Rows(A) |-> SubSeq(A[i], 1, SliceStop(n, Cols(A)))]

ColumnsFrom(A, n) ==
    [i \in 1..Rows(A) |-> SubSeq(A[i], SliceStop(n, Cols(A)) + 1, Cols(A))]

\* the engine after evaluate_gradients
WithGradients(e) == setattr(e, "gradients", GradientMatrix)

\* evaluate_gradients(); calls: the sample indices the Functional's gradient
\* was called for, in order; warned: no line of the method prints a warning
evaluate_gradients ==
    /\ eng' = WithGradients(eng)
    /\ ret' = [op |-> "evaluate_gradients", err |-> NoError, mutated |-> FALSE,
               gradients |-> GradientMatrix, warned |-> FALSE,
               calls |-> [i \in 1..smp["M"] |-> i - 1]]
    /\ UNCHANGED smp

\* eigenvalues(): the accessor; the guard tests the name of the method itself
eigenvalues ==
    /\ IF ~hasattr(eng, EngineNames, "eigenvalues")
         THEN ret' = [op |-> "eigenvalues",
                      err |-> "ValueError: Eigenvalues not calculated yet. Run the random sampling algorithm first."]
         ELSE IF "_eigenvalues" \notin DOMAIN eng
         THEN ret' = [op |-> "eigenvalues", err |-> NoEigenvalues]
         ELSE ret' = [op |-> "eigenvalues", err |-> NoError, mutated |-> FALSE,
                      val |-> eng["_eigenvalues"]]
    /\ UNCHANGED <<smp, eng>>

\* the engine after lines 141-147 of estimation, for each answer of
\* calculate_eigenpairs
WithEigenpairs(e) ==
    {setattr(setattr(e, "_eigenvalues", pairs.e), "_eigenvectors", pairs.W) :
        pairs \in Eigenpairs(covariance(e["gradients"]).val)}

\* estimation(); warned: the WARNING line was printed
estimation ==
    LET warned == hasattr(eng, EngineNames, "gradients")
        e1 == IF warned THEN eng ELSE WithGradients(eng)
        cov == covariance(e1["gradients"])
    IN /\ IF cov.err # NoError
            THEN /\ eng' = e1
                 /\ ret' = [op |-> "estimation", err |-> cov.err, warned |-> warned]
            ELSE \E e2 \in WithEigenpairs(e1) :
                 /\ eng' = e2
                 /\ ret' = [op |-> "estimation", err |-> NoError, warned |-> warned,
                            mutated |-> FALSE,
                            eigenvectors |-> e2["_eigenvectors"],
                            eigenvalues |-> e2["_eigenvalues"]]
       /\ UNCHANGED smp

\* partition(n); line is the source line that raised
partition(n) ==
    /\ IF ~hasattr(eng, EngineNames, "eigenvalues")
         THEN /\ ret' = [op |-> "partition", n |-> n, err |-> RaiseOfString, line |-> 165]
              /\ eng' = eng
         ELSE IF n > smp["m"]
         THEN /\ ret' = [op |-> "partition", n |-> n, err |-> RaiseOfString, line |-> 169]
              /\ eng' = eng
         ELSE IF "_eigenvectors" \notin DOMAIN eng
         THEN /\ ret' = [op |-> "partition", n |-> n, err |-> NoEigenvectors, line |-> 171]
              /\ eng' = eng
         ELSE /\ ret' = [op |-> "partition", n |-> n, err |-> NoError, line |-> 174,
                         mutated |-> FALSE,
                         W1 |-> ColumnsTo(eng["_eigenvectors"], n),
                         W2 |-> ColumnsFrom(eng["_eigenvectors"], n)]
              /\ eng' = setattr(eng, "W1", ColumnsTo(eng["_eigenvectors"], n))
    /\ UNCHANGED smp

\* covariance(gradients), called by a caller on a matrix of its own
call_covariance(G) ==
    /\ ret' = [op |-> "covariance", G |-> G, err |-> covariance(G).err,
               val |-> covariance(G).val]
    /\ UNCHANGED <<smp, eng>>

\* the calls of calculate_eigenpairs a caller makes: a matrix, what the
\* solver answered for it and the order argsort gave
EigenCalls ==
    UNION {UNION {{[matrix |-> A, solver |-> sol, order |-> p] :
                     p \in ArgSorts(AbsAll(sol.e))} : sol \in Eigh(A)} :
             A \in SymMatrices}

\* calculate_eigenpairs(matrix), called by a caller on a matrix of its own
call_calculate_eigenpairs(c) ==
    /\ ret' = [op |-> "calculate_eigenpairs", matrix |-> c.matrix, err |-> NoError,
               solver |-> c.solver,
               e |-> calculate_eigenpairs(c.solver, c.order).e,
               W |-> calculate_eigenpairs(c.solver, c.order).W]
    /\ UNCHANGED <<smp, eng>>

(***************************************************************************)
(* bootstrap.  A subspace distance is held in units of 1/25 (the product   *)
(* of two matrices scaled by 5); a mean is held as the fraction sum/count. *)
(***************************************************************************)
\* np.max and np.min of a non-empty vector
MaxOf(v) == CHOOSE x \in Range(v) : \A y \in Range(v) : y <= x

\* (mutant: the first replicate's value instead of the minimum)
FirstOf(v) == v[1]

MinOf(v) == CHOOSE x \in Range(v) : \A y \in Range(v) : x <= y

\* np.mean of a non-empty vector, as a fraction
MeanOf(v) == [num |-> SumTo(v, Len(v)), den |-> Len(v)]

\* np.dot(E[:, :j+1].T, U[:, j+1:]) for j in range(m-1), j 0-based
Overlap(E, U, j) ==
    [a \in 1..(j + 1) |-> [b \in 1..(Cols(U) - j - 1) |->
        Dot(Column(E, a), Column(U, j + 1 + b))]]

\* np.linalg.norm(P, ord=2): for the single-entry products of m <= 2
SpectralNorm(P) == Abs(P[1][1])

\* (mutant: the rows of the replicate are doubled)
Replicate_doubled(G, indices) ==
    [i \in 1..Len(indices) |-> [j \in 1..Len(G[indices[i] + 1]) |-> 2 * G[indices[i] + 1][j]]]

\* self.gradients[bootstrap_indices, :]
Replicate(G, indices) == [i \in 1..Len(indices) |-> G[indices[i] + 1]]

\* the rows of a matrix with the number of times each occurs
RowCounts(A) == [r \in Range(A) |-> Cardinality({i \in 1..Len(A) : A[i] = r})]

\* one pass of the replicate loop on engine e: every outcome the draw of the
\* indices, the solver and argsort allow
ReplicateOutcomes(e) ==
    LET M == smp["M"]
        m == smp["m"]
        Draws == [1..M -> 0..(M - 1)]
        Bad == {ix \in Draws : \E i \in 1..M : ix[i] + 1 > Rows(e["gradients"])}
        Column1(pairs, rep) ==
            IF m - 1 >= 1 /\ "_eigenvectors" \notin DOMAIN e
              THEN [err |-> NoEigenvectors]
              ELSE [err |-> NoError, S |-> pairs.e, rows |-> rep,
                    d |-> [j \in 1..m |->
                            IF j <= m - 1
                              THEN SpectralNorm(Overlap(e["_eigenvectors"], pairs.W, j - 1))
                              ELSE 0]]
    IN {[err |-> IndexErrorRows] : ix \in Bad} \cup
       UNION {UNION {{Column1(pairs, rc.rows) : pairs \in Eigenpairs(cov)} :
                       cov \in {rc.cov}} :
                rc \in {[rows |-> RowCounts(rep), cov |-> covariance(rep).val] :
                          rep \in {Replicate(e["gradients"], ix) : ix \in Draws \ Bad}}}

\* bootstrap(M_boot); outs is what the passes of the loop produced, and
\* replicates the rows each pass resampled, with their numbers of occurrences
bootstrap(B) ==
    LET e1 == IF ~hasattr(eng, EngineNames, "gradients") THEN WithGradients(eng) ELSE eng
        m == smp["m"]
        After == IF ~hasattr(e1, EngineNames, "eigenvalues")
                   THEN WithEigenpairs(e1) ELSE {e1}
    IN \E e2 \in After : \E outs \in [1..B -> ReplicateOutcomes(e2)] :
         LET failed == {i \in 1..B : outs[i].err # NoError}
             eigvals == [j \in 1..m |-> [i \in 1..B |-> outs[i].S[j]]]
             subspace_distances == [j \in 1..m |-> [i \in 1..B |-> outs[i].d[j]]]
             sub_max == [j \in 1..m |-> MaxOf(subspace_distances[j])]
             sub_min == [j \in 1..m |-> MinOf(subspace_distances[j])]
             sub_mean == [j \in 1..m |-> MeanOf(subspace_distances[j])]
             e_max == [j \in 1..m |-> MaxOf(eigvals[j])]
             e_min == [j \in 1..m |-> MinOf(eigvals[j])]
         IN /\ IF failed # {}
                 THEN /\ eng' = e2
                      /\ ret' = [op |-> "bootstrap", B |-> B,
                                 err |-> outs[CHOOSE i \in failed :
                                                \A k \in failed : i <= k].err]
                 ELSE IF B = 0
                 THEN /\ eng' = e2
                      /\ ret' = [op |-> "bootstrap", B |-> B, err |-> ZeroSizeReduction]
                 ELSE /\ eng' = setattr(setattr(e2, "e_boot", <<e_max, e_min>>),
                                        "sub_boot", <<sub_max, sub_min, sub_mean>>)
                      /\ ret' = [op |-> "bootstrap", B |-> B, err |-> NoError,
                                 e_boot |-> <<e_max, e_min>>,
                                 sub_boot |-> <<sub_max, sub_min, sub_mean>>,
                                 eigenvalues |-> eigvals,
                                 subspace_distances |-> subspace_distances,
                                 replicates |-> [i \in 1..B |-> outs[i].rows]]
            /\ UNCHANGED smp

(***************************************************************************)
(* The caller: writes in place into an array a call returned.  What the    *)
(* write reaches follows from what the return statement handed out: the    *)
(* engine's own array (evaluate_gradients, estimation), a slice of the     *)
(* engine's eigenvector matrix (partition), or a copy (eigenvalues).       *)
(***************************************************************************)
\* A[:, 0] *= -1 on a matrix with at least one column, column c of the base
NegateColumn(A, c) ==
    [i \in 1..Rows(A) |-> [j \in 1..Cols(A) |-> IF j = c THEN -A[i][j] ELSE A[i][j]]]

\* G[0, :] = 0
ZeroRow(A, r) ==
    [i \in 1..Rows(A) |-> IF i = r THEN [j \in 1..Cols(A) |-> 0] ELSE A[i]]

caller_writes(target) ==
    /\ "mutated" \in DOMAIN ret
    /\ ~ret.mutated
    /\ \/ /\ ret.op = "evaluate_gradients" /\ target = "gradients"
          /\ ret' = [ret EXCEPT !.mutated = TRUE, !.gradients = ZeroRow(@, 1)]
          \* line 93/100: the returned matrix is self.gradients itself
          /\ eng' = [eng EXCEPT !["gradients"] = ZeroRow(@, 1)]
       \/ /\ ret.op = "estimation" /\ target = "eigenvectors"
          /\ ret' = [ret EXCEPT !.mutated = TRUE, !.eigenvectors = NegateColumn(@, 1)]
          \* line 151: the returned matrix is self._eigenvectors itself
          /\ eng' = [eng EXCEPT !["_eigenvectors"] = NegateColumn(@, 1)]
       \/ /\ ret.op = "estimation" /\ target = "eigenvalues"
          /\ ret' = [ret EXCEPT !.mutated = TRUE, !.eigenvalues[1] = 0]
          \* line 151: the returned vector is self._eigenvalues itself
          /\ eng' = [eng EXCEPT !["_eigenvalues"][1] = 0]
       \/ /\ ret.op = "partition" /\ target = "W1" /\ Cols(ret.W1) >= 1
          /\ ret' = [ret EXCEPT !.mutated = TRUE, !.W1 = NegateColumn(@, 1)]
          \* lines 171, 173: W1 is a view of self._eigenvectors, and self.W1 is W1
          /\ eng' = [eng EXCEPT !["W1"] = NegateColumn(@, 1),
                                !["_eigenvectors"] = NegateColumn(@, 1)]
       \/ /\ ret.op = "partition" /\ target = "W2" /\ Cols(ret.W2) >= 1
          /\ ret' = [ret EXCEPT !.mutated = TRUE, !.W2 = NegateColumn(@, 1)]
          \* line 172: W2 is a view of self._eigenvectors
          /\ eng' = [eng EXCEPT !["_eigenvectors"] = NegateColumn(@, Cols(ret.W1) + 1)]
       \/ /\ ret.op = "eigenvalues" /\ target = "val"
          /\ ret' = [ret EXCEPT !.mutated = TRUE, !.val[1] = 0]
          \* line 77: np.copy
          /\ eng' = eng
    /\ UNCHANGED smp

(***************************************************************************)
(* clustering(sampling): k-means over the samples.  A centroid coordinate  *)
(* is a number held scaled by ClusterScale (so that the mean of up to      *)
(* MaxClusterM coordinates is an integer), or NaN.                         *)
(***************************************************************************)
MaxClusterM == 3

RECURSIVE Factorial(_)
Factorial(n) == IF n <= 1 THEN 1 ELSE n * Factorial(n - 1)

ClusterScale == Factorial(MaxClusterM)

NaN == [nan |-> TRUE, v |-> 0]

Num(x) == [nan |-> FALSE, v |-> x]

\* the names class clustering adds to those of sampling (methods)
ClusteringNames ==
    SamplingNames \cup {"detect", "clusters", "centroids", "assign_clusters",
                        "cluster_index", "update_centroids", "plot"}

CentroidsExist == "ValueError: Centroids have already been initialized. Set overwrite=True to overwrite the data."

ClustersExist == "ValueError: Clusters have already been initialized. Set overwrite=True to overwrite the data."

KeyErrorCentroids == "KeyError: '_centroids'"

KeyErrorClusters == "KeyError: '_clusters'"

UnboundClusters == "UnboundLocalError: local variable '_clusters' referenced before assignment"

\* clustering.__init__(M, m, k, max_iter) with 0 < k < M
clustering_init(M, m, k, max_iter, array) ==
    [a \in {"object_type", "M", "m", "_array", "_debug", "k", "_max_iter"} |->
        CASE a = "object_type" -> "clustering"
          [] a = "M" -> M
          [] a = "m" -> m
          [] a = "_array" -> array
          [] a = "k" -> k
          [] a = "_max_iter" -> max_iter
          [] OTHER -> TRUE]

\* np.isnan(centroid).any()
AnyNaN(c) == \E j \in 1..Len(c) : c[j].nan

\* np.linalg.norm(centroid - x), squared and scaled (NaN when the centroid has a NaN)
Distance2(c, x) ==
    IF AnyNaN(c)
      THEN NaN
      ELSE Num(SumTo([j \in 1..Len(x) |->
                 (c[j].v - ClusterScale * x[j]) * (c[j].v - ClusterScale * x[j])], Len(x)))

\* np.argmin (0-based): the first NaN if there is one, else the first minimum
ArgMin(d) ==
    IF \E i \in 1..Len(d) : d[i].nan
      THEN (CHOOSE i \in 1..Len(d) : d[i].nan /\ \A h \in 1..(i - 1) : ~d[h].nan) - 1
      ELSE (CHOOSE i \in 1..Len(d) :
              /\ \A h \in 1..Len(d) : d[i].v <= d[h].v
              /\ \A h \in 1..(i - 1) : d[h].v > d[i].v) - 1

\* cluster_index(x) against the centroids C
cluster_index(C, x) == ArgMin([i \in 1..Len(C) |-> Distance2(C[i], x)])

\* the indices (0-based, ascending) of the rows of data that fall to cluster c
RECURSIVE Members(_, _, _, _)
Members(C, data, c, n) ==
    IF n = 0 THEN <<>>
    ELSE IF cluster_index(C, data[n]) = c
           THEN Append(Members(C, data, c, n - 1), n - 1)
           ELSE Members(C, data, c, n - 1)

\* assign_clusters(data) against the centroids C: one index list per cluster
assign_clusters(C, data) ==
    [c \in 1..Len(C) |-> Members(C, data, c - 1, Len(data))]

\* np.mean(cluster_data, axis=0) of the rows array[idx], idx in cluster:
\* NaN in every coordinate for an empty cluster
MeanRow(array, cluster, m) ==
    IF Len(cluster) = 0
      THEN [j \in 1..m |-> NaN]
      ELSE [j \in 1..m |->
              Num((ClusterScale * SumTo([a \in 1..Len(cluster) |-> array[cluster[a] + 1][j]],
                                        Len(cluster))) \div Len(cluster))]

\* update_centroids(_clusters) as detect calls it, with the clusters that
\* assign_clusters returned: a centroid that holds a NaN is left as it is
NewCentroids(C, clusters, array, m) ==
    [i \in 1..Len(C) |-> IF ~AnyNaN(C[i]) THEN MeanRow(array, clusters[i], m) ELSE C[i]]

\* np.not_equal(self._centroids, _prev_centroids).any(); prev is <<>> for None
NotEqualAny(C, prev) ==
    \/ prev = <<>>
    \/ \E i \in 1..Len(C) : \E j \in 1..Len(C[i]) :
         C[i][j].nan \/ prev[i][j].nan \/ C[i][j].v # prev[i][j].v

\* the while loop of detect, from its test on
RECURSIVE KMeans(_, _, _, _, _, _)
KMeans(C, prev, clusters, iter, max_iter, array) ==
    IF NotEqualAny(C, prev) /\ iter < max_iter
      THEN CHOOSE r \in UNION {{KMeans(updated, C, assigned, iter + 1, max_iter, array) :
                                   updated \in {NewCentroids(C, assigned, array,
                                                              Len(array[1]))}} :
                                 assigned \in {assign_clusters(C, array)}} : TRUE
      ELSE [centroids |-> C, clusters |-> clusters, iter |-> iter]

\* np.min(self._array) and np.max(self._array): over every entry
ArrayMin(array) ==
    CHOOSE x \in Coord : /\ \E i \in 1..Len(array) : \E j \in 1..Len(array[i]) : array[i][j] = x
                         /\ \A i \in 1..Len(array) : \A j \in 1..Len(array[i]) : x <= array[i][j]

ArrayMax(array) ==
    CHOOSE x \in Coord : /\ \E i \in 1..Len(array) : \E j \in 1..Len(array[i]) : array[i][j] = x
                         /\ \A i \in 1..Len(array) : \A j \in 1..Len(array[i]) : array[i][j] <= x

\* the draws of np.random.uniform(_min, _max), in quarters of the range
\* above _min: the interval is half open, _max itself is not drawn
StartQuarters == 0..3

\* np.random.uniform(_min, _max, (k, m))
InitialCentroids(array, k, m) ==
    [1..k -> [1..m ->
        {Num(ClusterScale * ArrayMin(array)
               + (ClusterScale * (ArrayMax(array) - ArrayMin(array)) * q) \div 4) :
           q \in StartQuarters}]]

\* detect(); start is what np.random.uniform drew
detect(start) ==
    /\ smp["object_type"] = "clustering"
    /\ start \in InitialCentroids(smp["_array"], smp["k"], smp["m"])
    /\ \E run \in {KMeans(start, <<>>, <<>>, 0, smp["_max_iter"], smp["_array"])} :
         IF run.iter = 0
           THEN \* line 331: the loop never ran and _clusters is unbound
                /\ smp' = setattr(smp, "_centroids", run.centroids)
                /\ ret' = [op |-> "detect", err |-> UnboundClusters]
           ELSE /\ smp' = setattr(setattr(smp, "_centroids", run.centroids),
                                  "_clusters", run.clusters)
                /\ ret' = [op |-> "detect", err |-> NoError, iter |-> run.iter]
    /\ UNCHANGED eng

NoCentroids == "AttributeError: 'clustering' object has no attribute '_centroids'"

ListIndexOutOfRange == "IndexError: list index out of range"

\* the loop of update_centroids from centroid i (1-based) on: _clusters[i]
\* and extract(idx) may raise, and the centroids written before stay written
RECURSIVE UpdateRows(_, _, _)
UpdateRows(C, clusters, i) ==
    IF i > Len(C) THEN [err |-> NoError, centroids |-> C]
    ELSE IF i > Len(clusters) THEN [err |-> ListIndexOutOfRange, centroids |-> C]
    ELSE IF \E a \in 1..Len(clusters[i]) : ~InBounds(clusters[i][a])
      THEN [err |-> IndexOutOfBounds, centroids |-> C]
    ELSE UpdateRows(IF ~AnyNaN(C[i])
                      THEN [C EXCEPT ![i] = MeanRow(smp["_array"], clusters[i], smp["m"])]
                      ELSE C,
                    clusters, i + 1)

\* the cluster lists a caller hands to update_centroids: every assignment
\* of the indices 0..M-1 to k clusters, a list that is too short, and a list
\* with an index that is out of bounds
ClusterLists ==
    {[c \in 1..smp["k"] |-> SelectSeq([i \in 1..smp["M"] |-> i - 1], LAMBDA x : f[x] = c)] :
        f \in [0..(smp["M"] - 1) -> 1..smp["k"]]}
    \cup {<<>>, [c \in 1..smp["k"] |-> <<smp["M"]>>]}

\* update_centroids(_clusters), called by a caller
update_centroids(clusters) ==
    /\ smp["object_type"] = "clustering"
    /\ IF "_centroids" \notin DOMAIN smp
         THEN /\ smp' = smp
              /\ ret' = [op |-> "update_centroids", err |-> NoCentroids]
         ELSE \E run \in {UpdateRows(smp["_centroids"], clusters, 1)} :
              /\ smp' = setattr(smp, "_centroids", run.centroids)
              /\ ret' = [op |-> "update_centroids", err |-> run.err]
    /\ UNCHANGED eng

\* super().load(data, overwrite=True) of clustering.load: what sampling.load
\* does to the object, or the error it raises
super_load(data) == sampling_load(smp, data, TRUE)

\* clustering.load(data, overwrite)
clustering_load(data, overwrite) ==
    /\ smp["object_type"] = "clustering"
    /\ \E base \in {super_load(data)} :
         LET shape == <<Rows(data["_array"]), Cols(data["_array"])>>
             result(err, obj) ==
                 /\ ret' = [op |-> "load", err |-> err, shape |-> shape,
                            overwrite |-> overwrite]
                 /\ smp' = obj
         IN IF base.err # NoError
              THEN result(base.err, smp)
            ELSE IF hasattr(base.obj, ClusteringNames, "_centroids") /\ ~overwrite
              THEN result(CentroidsExist, base.obj)
            ELSE IF "_centroids" \notin DOMAIN data
              THEN result(KeyErrorCentroids, base.obj)
            ELSE LET withC == setattr(base.obj, "_centroids", data["_centroids"])
                 IN IF hasattr(withC, ClusteringNames, "_clusters") /\ ~overwrite
                      THEN result(ClustersExist, withC)
                    ELSE IF "_clusters" \notin DOMAIN data
                      THEN result(KeyErrorClusters, setattr(withC, "_clusters", <<>>))
                    ELSE result(NoError, setattr(withC, "_clusters", data["_clusters"]))
    /\ UNCHANGED eng

\* the mappings a caller hands to clustering.load: a coordinate array, and
\* optionally values, centroids and clusters
ClusterData ==
    {[key \in {"_array"} \cup extra |->
        CASE key = "_array" -> a
          [] key = "_values" -> [i \in 1..Rows(a) |-> 0]
          [] key = "_centroids" -> <<[j \in 1..Cols(a) |-> Num(0)]>>
          [] OTHER -> <<[i \in 1..Rows(a) |-> i - 1]>>] :
       a \in {[i \in 1..Md |-> [j \in 1..md |-> 1]] : Md \in 2..MaxClusterM, md \in Dims},
       extra \in {{}, {"_centroids"}, {"_centroids", "_clusters"},
                  {"_values", "_centroids", "_clusters"}}}

(***************************************************************************)
(* The state machine.                                                      *)
(***************************************************************************)
Init ==
    \E M \in 1..MaxM, m \in Dims :
      \E array \in Arrays(Coord, M, m) :
        /\ smp = sampling_init(M, m, array)
        /\ eng = engine_init(1)
        /\ ret = [op |-> "init", err |-> NoError]

NextSamples ==
    \/ \E o \in BOOLEAN : \E fresh \in Arrays(Coord, smp["M"], smp["m"]) :
         random_uniform(o, fresh)
    \/ \E i \in Indices : extract(i)
    \/ \E i \in Indices, s \in Vectors : replace(i, s)
    \/ \E isNone \in BOOLEAN, s \in Vectors : add_sample(isNone, s)
    \/ \E f \in Callables \cup {"not_callable"} : assign_values(f)
    \/ \E i \in Indices, v \in Scalars : assign_value(i, v)
    \/ \E i \in Indices : extract_value(i)
    \/ \E x \in Vectors : index(x)
    \/ \E a \in LoadArrays, hv \in BOOLEAN, v \in LoadValues, o \in BOOLEAN :
         load(a, hv, v, o)

SpecSamples == Init /\ [][NextSamples]_vars

\* a caller applying the engine's pure functions to matrices of its own,
\* one call on a fresh engine
NextPure ==
    /\ ret.op = "init"
    /\ \/ \E G \in SeqsOf(GradRows(smp["m"]), 1, MaxM) : call_covariance(G)
       \/ \E c \in EigenCalls : call_calculate_eigenpairs(c)

SpecPure == Init /\ [][NextPure]_vars

\* the arguments a caller passes to partition: below 0, inside and above m
PartitionArgs == -1 .. 3

\* the caller wrote into a returned array
Written == "mutated" \in DOMAIN ret /\ ret.mutated

\* the engine's calls, and at the end a caller's write into what it was handed
NextEngine ==
    \/ ~Written /\ evaluate_gradients
    \/ ~Written /\ eigenvalues
    \/ ~Written /\ estimation
    \/ ~Written /\ \E n \in PartitionArgs : partition(n)
    \/ \E t \in {"gradients", "eigenvectors", "eigenvalues", "W1", "W2", "val"} :
         caller_writes(t)

SpecEngine == Init /\ [][NextEngine]_vars

\* the engine's calls up to one call of bootstrap, which ends the run
NextBoot ==
    \/ ret.op # "bootstrap" /\ evaluate_gradients
    \/ ret.op # "bootstrap" /\ estimation
    \/ ret.op # "bootstrap" /\ \E B \in 0..MaxBoot : bootstrap(B)

SpecBoot == Init /\ [][NextBoot]_vars

\* building up a sample container, saving it, and loading the file into a
\* newly constructed one
NextRoundTrip ==
    \/ ret.op \notin {"save", "load_saved"} /\ \E f \in Callables : assign_values(f)
    \/ ret.op \notin {"save", "load_saved"} /\ \E i \in Indices, v \in Scalars : assign_value(i, v)
    \/ ret.op \notin {"save", "load_saved"} /\ \E isNone \in BOOLEAN, x \in Vectors : add_sample(isNone, x)
    \/ ret.op \notin {"save", "load_saved"} /\ \E isString \in BOOLEAN : save(isString)
    \/ \E drawn \in Arrays(Coord, smp["M"], smp["m"]), o \in BOOLEAN : load_saved(drawn, o)

SpecRoundTrip == Init /\ [][NextRoundTrip]_vars

\* the gradients evaluated last
Evaluated == ret.op = "evaluate_gradients"

\* changes of the sample container, then one gradient evaluation
NextGradients ==
    \/ /\ ~Evaluated /\ "_bounds" \notin DOMAIN smp
       /\ \E b \in [1..smp["m"] -> BoundPairs] : declare_bounds(b)
    \/ ~Evaluated /\ \E i \in Indices, x \in Vectors : replace(i, x)
    \/ ~Evaluated /\ \E isNone \in BOOLEAN, x \in Vectors : add_sample(isNone, x)
    \/ ~Evaluated /\ \E f \in Callables : assign_values(f)
    \/ ~Evaluated /\ evaluate_gradients

SpecGradients == Init /\ [][NextGradients]_vars

\* estimation, a partition, and then one call of bootstrap on the engine
\* that holds gradients and an eigendecomposition
NextBootCached ==
    \/ ret.op = "init" /\ estimation
    \/ ret.op = "estimation" /\ partition(1)
    \/ /\ ret.op \in {"estimation", "partition"}
       /\ \E B \in 1..MaxBoot : bootstrap(B)

SpecBootCached == Init /\ [][NextBootCached]_vars

\* the engine's calls interleaved with the calls that change its sample
\* container: a gradient computation, then an add_sample or a replace, then
\* an estimation or a bootstrap; GradientsComputed: the last call was the
\* one that computed the gradients
GradientsComputed ==
    \/ ret.op = "evaluate_gradients"
    \/ ret.op = "estimation" /\ ~ret.warned

NextInterleaved ==
    \/ ret.op = "init" /\ evaluate_gradients
    \/ ret.op \in {"init", "add_sample", "replace"} /\ estimation
    \/ GradientsComputed /\ \E isNone \in BOOLEAN, s \in Vectors : add_sample(isNone, s)
    \/ GradientsComputed /\ \E i \in Indices, s \in Vectors : replace(i, s)
    \/ ret.op \in {"add_sample", "replace"} /\ bootstrap(1)

SpecInterleaved == Init /\ [][NextInterleaved]_vars

\* the max_iter a caller constructs a clustering with
MaxIters == {0, 1, 3}

\* a sample container of either class after construction
InitCluster ==
    /\ eng = engine_init(1)
    /\ ret = [op |-> "init", err |-> NoError]
    /\ \/ \E M \in 1..MaxM, m \in Dims : \E array \in Arrays(Coord, M, m) :
            smp = sampling_init(M, m, array)
       \/ \E M \in 2..MaxClusterM, m \in Dims : \E k \in 1..(M - 1), it \in MaxIters :
            \E array \in Arrays(Coord, M, m) :
              smp = clustering_init(M, m, k, it, array)

\* one detect, then one load, then one update_centroids by the caller; load
\* is the method of the object's class
NextCluster ==
    \/ /\ smp["object_type"] = "clustering"
       /\ ret.op = "init"
       /\ \E start \in InitialCentroids(smp["_array"], smp["k"], smp["m"]) : detect(start)
    \/ /\ ret.op \in {"init", "detect"}
       /\ \E data \in ClusterData, o \in BOOLEAN : clustering_load(data, o)
    \/ /\ smp["object_type"] = "clustering"
       /\ ret.op # "update_centroids"
       /\ \E clusters \in ClusterLists : update_centroids(clusters)
    \/ /\ smp["object_type"] = "sampling"
       /\ ret.op \in {"init", "detect"}
       /\ \E a \in LoadArrays, hv \in BOOLEAN, v \in LoadValues, o \in BOOLEAN :
            load(a, hv, v, o)

SpecCluster == InitCluster /\ [][NextCluster]_vars

(***************************************************************************)
(* Claims about the sample container, under SpecSamples.                   *)
(***************************************************************************)
\* C1: in every reachable state the coordinate array has shape (M, m) and
\* the value array, when present, has length M.
C1_ShapeInvariant ==
    /\ Rows(smp["_array"]) = smp["M"]
    /\ \A i \in 1..Rows(smp["_array"]) : Len(smp["_array"][i]) = smp["m"]
    /\ "_values" \in DOMAIN smp => Len(smp["_values"]) = smp["M"]

\* the index-taking operations
IndexOps == {"extract", "replace", "assign_value", "extract_value"}

\* an error that reports an index out of bounds, whoever raises it
OutOfBoundsError(err) == err \in {IndexOutOfBounds, IndexErrorValues}

\* C10: an index-taking operation called with an index outside [0, M) fails
\* with the out-of-bounds error and leaves the container unchanged; called
\* with an index inside [0, M) it does not fail with an out-of-bounds error.
C10_IndexOperations ==
    [][ret'.op \in IndexOps =>
          IF 0 <= ret'.index /\ ret'.index < smp["M"]
            THEN ~OutOfBoundsError(ret'.err)
            ELSE ret'.err = IndexOutOfBounds /\ smp' = smp]_vars

(***************************************************************************)
(* Claims about the engine's calls, under SpecEngine and SpecBoot.         *)
(***************************************************************************)
\* the engine holds an eigendecomposition
HasEigen(e) == {"_eigenvalues", "_eigenvectors"} \subseteq DOMAIN e

\* C2: bootstrap(B) with B >= 1 on an engine that lacks gradients or an
\* eigendecomposition does not fail, and when it returns the engine holds
\* gradients, an eigendecomposition and the bootstrap results.
C2_BootstrapComputesOnDemand ==
    (ret.op = "bootstrap" /\ ret.B >= 1) =>
        /\ ret.err = NoError
        /\ "gradients" \in DOMAIN eng
        /\ HasEigen(eng)
        /\ {"e_boot", "sub_boot"} \subseteq DOMAIN eng

\* C3: partition(n) without an eigendecomposition fails at the guard of
\* line 165, partition(n) with n > m fails at the guard of line 169, and a
\* failed partition stores no W1 and changes nothing on the engine.
C3_PartitionGuards ==
    [][ret'.op = "partition" =>
          /\ ~HasEigen(eng) => (ret'.err # NoError /\ ret'.line = 165 /\ eng' = eng)
          /\ (HasEigen(eng) /\ ret'.n > smp["m"]) =>
                (ret'.err # NoError /\ ret'.line = 169 /\ eng' = eng)]_vars

\* A has exactly the columns lo..hi of E, in order
IsColumns(A, E, lo, hi) ==
    /\ Rows(A) = Rows(E)
    /\ \A i \in 1..Rows(E) :
         /\ Len(A[i]) = Max2(hi - lo + 1, 0)
         /\ \A j \in 1..Len(A[i]) : A[i][j] = E[i][lo + j - 1]

\* np.hstack((A, B))
Concat(A, B) == [i \in 1..Rows(A) |-> A[i] \o B[i]]

\* partition(n) returned
Partitioned == ret.op = "partition" /\ ret.err = NoError /\ ~ret.mutated

\* C4 as claimed: for every n partition accepts, W1 is the first n columns
\* of the eigenvector matrix and W2 the remaining m-n, their concatenation
\* is the eigenvector matrix, n = m gives a W2 of zero columns, and the
\* returned W1 is the one kept on the engine.
C4_PartitionSplits ==
    Partitioned =>
        /\ IsColumns(ret.W1, eng["_eigenvectors"], 1, ret.n)
        /\ Cols(ret.W1) = ret.n
        /\ IsColumns(ret.W2, eng["_eigenvectors"], ret.n + 1, smp["m"])
        /\ Concat(ret.W1, ret.W2) = eng["_eigenvectors"]
        /\ ret.n = smp["m"] => (Cols(ret.W2) = 0 /\ ret.W1 = eng["_eigenvectors"])
        /\ ret.W1 = eng["W1"]

\* C4 amended: the concatenation and the kept W1 hold for every accepted n;
\* W1 is the first n columns and W2 the remaining m-n for 0 <= n <= m.
C4_PartitionSplitsFromZero ==
    Partitioned =>
        /\ Concat(ret.W1, ret.W2) = eng["_eigenvectors"]
        /\ ret.W1 = eng["W1"]
        /\ ret.n <= smp["m"]
        /\ ret.n >= 0 =>
             /\ IsColumns(ret.W1, eng["_eigenvectors"], 1, ret.n)
             /\ Cols(ret.W1) = ret.n
             /\ IsColumns(ret.W2, eng["_eigenvectors"], ret.n + 1, smp["m"])
        /\ ret.n = smp["m"] => (Cols(ret.W2) = 0 /\ ret.W1 = eng["_eigenvectors"])

\* partition split a two-column eigenvector matrix in the middle
C4_Witness ==
    /\ Partitioned
    /\ smp["m"] = 2
    /\ ret.n = 1
    /\ ret.W1 # ret.W2

\* C5: a caller's write into an array the engine returned changes nothing on
\* the engine.
C5_ReturnsCopies ==
    [][(~Written /\ Written') => eng' = eng]_vars

(***************************************************************************)
(* Claims about the engine's pure functions, under SpecPure.               *)
(***************************************************************************)
\* a caller's call of calculate_eigenpairs returned
EigenpairsReturned == ret.op = "calculate_eigenpairs"

\* C6: the eigenvalues calculate_eigenpairs returns are all >= 0, in
\* non-increasing order, and a permutation of the absolute values of the
\* solver's eigenvalues.
C6_EigenvaluesSorted ==
    EigenpairsReturned =>
        LET n == Len(ret.e)
        IN /\ \A j \in 1..n : ret.e[j] >= 0
           /\ \A j \in 1..(n - 1) : ret.e[j] >= ret.e[j + 1]
           /\ \E q \in Perms(n) : \A j \in 1..n : ret.e[j] = Abs(ret.solver.e[q[j]])

\* the solver answered a negative eigenvalue of the larger magnitude first
C6_Witness ==
    /\ EigenpairsReturned
    /\ Len(ret.e) = 2
    /\ ret.solver.e[1] < 0
    /\ ret.solver.e[2] > 0
    /\ ret.e[1] > ret.e[2]

\* C7: every eigenvector column calculate_eigenpairs returns has a first
\* coordinate >= 0 and is the solver's eigenvector of the returned
\* eigenvalue, multiplied as a whole by +1 or -1, and by +1 when its first
\* coordinate is zero.
C7_SignConvention ==
    EigenpairsReturned =>
        LET n == Len(ret.e)
        IN /\ \A j \in 1..n : ret.W[1][j] >= 0
           /\ \E q \in Perms(n) : \A j \in 1..n :
                /\ ret.e[j] = Abs(ret.solver.e[q[j]])
                /\ \E sg \in {1, -1} :
                     /\ \A i \in 1..n : ret.W[i][j] = sg * ret.solver.W[i][q[j]]
                     /\ ret.solver.W[1][q[j]] = 0 => sg = 1

\* the solver answered one column with a negative first coordinate and one
\* with a zero first coordinate and a negative second
C7_Witness ==
    /\ EigenpairsReturned
    /\ Len(ret.e) = 2
    /\ \E j, k \in 1..2 :
         /\ ret.solver.W[1][j] < 0
         /\ ret.solver.W[1][k] = 0
         /\ ret.solver.W[2][k] < 0

\* the rows of G in the order q
Permuted(G, q) == [i \in 1..Len(G) |-> G[q[i]]]

\* a caller's call of covariance on a matrix with one row per sample returned
CovarianceReturned == ret.op = "covariance" /\ Rows(ret.G) = smp["M"]

\* C8: covariance(G) is the symmetric m x m matrix (1/M) * sum of g g^T over
\* the rows g of G, and it is the same for every order of the rows.
C8_Covariance ==
    CovarianceReturned =>
        LET m == smp["m"]
            M == smp["M"]
        IN /\ ret.err = NoError
           /\ Rows(ret.val) = m
           /\ \A a, b \in 1..m :
                /\ Len(ret.val[a]) = m
                /\ M * ret.val[a][b] =
                     SumTo([i \in 1..M |-> ret.G[i][a] * ret.G[i][b]], M)
                /\ ret.val[a][b] = ret.val[b][a]
           /\ \A q \in Perms(M) : covariance(Permuted(ret.G, q)).val = ret.val

\* covariance was applied to two different gradient rows in dimension 2
C8_Witness ==
    /\ CovarianceReturned
    /\ smp["M"] = 2
    /\ smp["m"] = 2
    /\ ret.G[1] # ret.G[2]
    /\ ret.val[1][2] # 0

(***************************************************************************)
(* Claims about bootstrap, under SpecBoot.                                 *)
(***************************************************************************)
\* bootstrap(B) returned its aggregates
Bootstrapped == ret.op = "bootstrap" /\ ret.err = NoError

\* C9: for every dimension j and replicate i, the returned eigenvalue
\* minimum <= the replicate's eigenvalue <= the returned maximum, the same
\* for the subspace distances, and the mean lies between minimum and maximum.
C9_BootstrapBounds ==
    Bootstrapped =>
        LET e_max == ret.e_boot[1]
            e_min == ret.e_boot[2]
            sub_max == ret.sub_boot[1]
            sub_min == ret.sub_boot[2]
            sub_mean == ret.sub_boot[3]
        IN \A j \in 1..smp["m"] :
             /\ \A i \in 1..ret.B :
                  /\ e_min[j] <= ret.eigenvalues[j][i]
                  /\ ret.eigenvalues[j][i] <= e_max[j]
                  /\ sub_min[j] <= ret.subspace_distances[j][i]
                  /\ ret.subspace_distances[j][i] <= sub_max[j]
             /\ sub_min[j] * sub_mean[j].den <= sub_mean[j].num
             /\ sub_mean[j].num <= sub_max[j] * sub_mean[j].den

\* two replicates that differ in an eigenvalue and in a subspace distance,
\* the smaller value not in the first replicate
C9_Witness ==
    /\ Bootstrapped
    /\ ret.B = 2
    /\ smp["m"] = 2
    /\ ret.eigenvalues[1][2] < ret.eigenvalues[1][1]
    /\ ret.subspace_distances[1][2] < ret.subspace_distances[1][1]

(***************************************************************************)
(* Claims about load and detect, under SpecCluster.                        *)
(***************************************************************************)
\* the arrays an object of either class holds in memory
InMemoryArrays(obj) ==
    [a \in (DOMAIN obj) \cap {"_array", "_values", "_centroids", "_clusters"} |-> obj[a]]

\* C11: load, on sampling and on clustering, fails with the shape error when
\* the supplied coordinate array's shape is not (M, m), and when in-memory
\* data exists and overwrite was not requested it fails and leaves every
\* in-memory array (coordinates, values, centroids, clusters) unchanged.
C11_LoadRefuses ==
    [][ret'.op = "load" =>
          /\ ret'.shape # <<smp["M"], smp["m"]>> => ret'.err = ArrayWrongShape
          /\ (ret'.shape = <<smp["M"], smp["m"]>> /\ ~ret'.overwrite
                /\ "_array" \in DOMAIN smp) =>
                (ret'.err # NoError /\ InMemoryArrays(smp') = InMemoryArrays(smp))]_vars

(***************************************************************************)
(* Claims about save and load, under SpecRoundTrip.                        *)
(***************************************************************************)
\* a saved container's file was loaded into a newly constructed container
LoadedSaved == ret.op = "load_saved"

\* the new container holds the coordinates, and the values if there were
\* any, of the saved one
Reproduced ==
    /\ smp["_array"] = ret.original["_array"]
    /\ "_values" \in DOMAIN ret.original =>
         ("_values" \in DOMAIN smp /\ smp["_values"] = ret.original["_values"])

\* C12 as claimed: saving a container and loading the mapping into a newly
\* constructed container of the same (M, m) succeeds and reproduces the
\* coordinate array, and the value array if there was one.
C12_RoundTrip == LoadedSaved => (ret.err = NoError /\ Reproduced)

\* C12 amended: the load succeeds and reproduces the arrays when called with
\* overwrite=True; with overwrite=False it fails with 'Samples already
\* exist' and the new container keeps the coordinates its constructor drew.
C12_RoundTripOverwriting ==
    LoadedSaved =>
        IF ret.overwrite
          THEN ret.err = NoError /\ Reproduced
          ELSE /\ ret.err = SamplesExist
               /\ smp["_array"] = ret.drawn
               /\ "_values" \notin DOMAIN smp

\* a container with values was saved and loaded, with overwrite=True, into
\* a new container whose constructor had drawn other coordinates
C12_Witness ==
    /\ LoadedSaved
    /\ ret.overwrite
    /\ ret.err = NoError
    /\ "_values" \in DOMAIN ret.original
    /\ \E i \in 1..Len(ret.original["_values"]) : ret.original["_values"][i] # 0
    /\ ret.drawn # ret.original["_array"]

(***************************************************************************)
(* More claims about the sample container, under SpecSamples.              *)
(***************************************************************************)
\* C13: index(sample), for a vector of length m, returns an index i in
\* [0, M) whose stored row equals the sample in every coordinate, and fails
\* with the not-found error when no stored row equals the sample.
C13_IndexFindsRow ==
    (ret.op = "index" /\ Len(ret.sample) = smp["m"]) =>
        IF \E i \in 1..smp["M"] : smp["_array"][i] = ret.sample
          THEN /\ ret.err = NoError
               /\ ret.val \in 0..(smp["M"] - 1)
               /\ smp["_array"][ret.val + 1] = ret.sample
          ELSE ret.err = SampleNotInArray

(***************************************************************************)
(* More claims about the engine, under SpecEngine.                         *)
(***************************************************************************)
\* C14: whenever evaluate_gradients or estimation is called while the
\* engine already holds a gradient matrix, the call prints a warning that
\* the gradients are superseded or reused.
C14_WarnsOnCachedGradients ==
    [][(ret'.op \in {"evaluate_gradients", "estimation"} /\ ~Written'
          /\ "gradients" \in DOMAIN eng) => ret'.warned]_vars

(***************************************************************************)
(* Claims about evaluate_gradients, under SpecGradients.                   *)
(***************************************************************************)
\* C15: evaluate_gradients calls the Functional's gradient once for each
\* sample index 0..M-1, in order, and returns the M x m matrix whose row i
\* is the Functional's gradient at sample i, component j multiplied by half
\* the width of the bounds of dimension j when the container declares
\* bounds; the matrix kept on the engine is the returned one, and the sample
\* container is unchanged.
C15_GradientMatrix ==
    [][ret'.op = "evaluate_gradients" =>
          /\ ret'.err = NoError
          /\ ret'.calls = [i \in 1..smp["M"] |-> i - 1]
          /\ Rows(ret'.gradients) = smp["M"]
          /\ \A i \in 1..smp["M"] :
               /\ Len(ret'.gradients[i]) = smp["m"]
               /\ \A j \in 1..smp["m"] :
                    IF "_bounds" \in DOMAIN smp
                      THEN 2 * ret'.gradients[i][j] =
                             gradient(smp["_array"][i])[j]
                               * (smp["_bounds"][j][2] - smp["_bounds"][j][1])
                      ELSE ret'.gradients[i][j] = gradient(smp["_array"][i])[j]
          /\ eng'["gradients"] = ret'.gradients
          /\ smp' = smp]_vars

\* gradients were evaluated for two samples with different gradients, on a
\* container with values and with bounds of different widths per dimension
C15_Witness ==
    /\ ret.op = "evaluate_gradients"
    /\ smp["M"] = 2
    /\ smp["m"] = 2
    /\ "_values" \in DOMAIN smp
    /\ "_bounds" \in DOMAIN smp
    /\ smp["_bounds"][1] = <<0, 4>>
    /\ smp["_bounds"][2] = <<-3, 3>>
    /\ ret.gradients[1] # ret.gradients[2]

(***************************************************************************)
(* Claims about add_sample, under SpecSamples.                             *)
(***************************************************************************)
\* C16: add_sample with a vector of length m, or with None and a vector
\* drawn in [-1, 1]^m, increases M by exactly 1, leaves rows 0..M-1 of the
\* coordinate array unchanged and stores the sample as the last row;
\* add_sample with a vector of another length fails with the shape error
\* and leaves M and the coordinate array unchanged.
C16_AddSample ==
    [][ret'.op = "add_sample" =>
          IF ret'.isNone \/ Len(ret'.sample) = smp["m"]
            THEN /\ ret'.err = NoError
                 /\ smp'["M"] = smp["M"] + 1
                 /\ Len(smp'["_array"]) = smp["M"] + 1
                 /\ SubSeq(smp'["_array"], 1, smp["M"]) = smp["_array"]
                 /\ smp'["_array"][smp["M"] + 1] = ret'.sample
                 /\ Len(ret'.sample) = smp["m"]
                 /\ \A j \in 1..smp["m"] : -1 <= ret'.sample[j] /\ ret'.sample[j] <= 1
            ELSE /\ ret'.err = SampleWrongShape
                 /\ smp'["M"] = smp["M"]
                 /\ smp'["_array"] = smp["_array"]]_vars

\* a given sample was appended below a different first row
C16_Witness ==
    /\ ret.op = "add_sample"
    /\ ret.err = NoError
    /\ ~ret.isNone
    /\ smp["M"] = 2
    /\ smp["_array"][2] = ret.sample
    /\ smp["_array"][1] # smp["_array"][2]

(***************************************************************************)
(* Claims about bootstrap on cached data, under SpecBootCached.            *)
(***************************************************************************)
\* the number of rows that a table of occurrences counts
RECURSIVE TotalCount(_)
TotalCount(c) ==
    IF DOMAIN c = {} THEN 0
    ELSE LET r == CHOOSE r \in DOMAIN c : TRUE
         IN c[r] + TotalCount([q \in (DOMAIN c) \ {r} |-> c[q]])

\* the fields bootstrap writes its results to
BootstrapFields == {"e_boot", "sub_boot"}

\* C17: bootstrap(B), called when gradients and an eigendecomposition
\* exist, returns and leaves the engine's gradients, eigenvalues,
\* eigenvectors and W1 (every field but the bootstrap results) unchanged,
\* and every replicate consists of exactly M rows, each a row of the cached
\* gradient matrix at an index in [0, M).
C17_BootstrapReadOnly ==
    [][(ret'.op = "bootstrap" /\ "gradients" \in DOMAIN eng /\ HasEigen(eng)) =>
          /\ ret'.err = NoError
          /\ DOMAIN eng' = (DOMAIN eng) \cup BootstrapFields
          /\ \A a \in (DOMAIN eng) \ BootstrapFields : eng'[a] = eng[a]
          /\ \A i \in 1..ret'.B :
               /\ TotalCount(ret'.replicates[i]) = smp["M"]
               /\ \A r \in DOMAIN ret'.replicates[i] :
                    \E idx \in 0..(smp["M"] - 1) : eng["gradients"][idx + 1] = r]_vars

\* bootstrap returned two replicates that differ, on an engine that was
\* partitioned before the call
C17_Witness ==
    /\ ret.op = "bootstrap" /\ ret.err = NoError /\ ret.B = 2
    /\ ret.replicates[1] # ret.replicates[2]
    /\ "W1" \in DOMAIN eng /\ "e_boot" \in DOMAIN eng
    /\ \A i \in 1..2 : TotalCount(ret.replicates[i]) = smp["M"]

(***************************************************************************)
(* Claims about clustering.detect, under SpecCluster.                      *)
(***************************************************************************)
\* detect() returned
Detected == ret.op = "detect" /\ ret.err = NoError

\* C18: after detect() with max_iter >= 1 every sample index 0..M-1 is in
\* exactly one cluster, the centroid of every non-empty cluster is the
\* arithmetic mean of the samples assigned to it, and with k = 1 the single
\* cluster holds every index and its centroid is the mean of all samples.
C18_ClustersPartitionAndMeans ==
    Detected =>
      /\ Len(smp["_clusters"]) = smp["k"]
      /\ \A idx \in 0..(smp["M"] - 1) :
           Cardinality({<<c, a>> \in (1..smp["k"]) \X (1..smp["M"]) :
                          a <= Len(smp["_clusters"][c]) /\ smp["_clusters"][c][a] = idx}) = 1
      /\ \A c \in 1..smp["k"] :
           Len(smp["_clusters"][c]) > 0 =>
             smp["_centroids"][c] = MeanRow(smp["_array"], smp["_clusters"][c], smp["m"])
      /\ smp["k"] = 1 =>
           /\ smp["_clusters"] = <<[i \in 1..smp["M"] |-> i - 1]>>
           /\ smp["_centroids"] =
                <<MeanRow(smp["_array"], [i \in 1..smp["M"] |-> i - 1], smp["m"])>>

(***************************************************************************)
(* Claims about the engine and its sample container, under                 *)
(* SpecInterleaved.                                                        *)
(***************************************************************************)
\* C19: in every state reachable by interleaving add_sample and replace
\* with evaluate_gradients, estimation and bootstrap, the cached gradient
\* matrix has as many rows as the sample container has samples, so that
\* estimation and bootstrap never index it out of range.
C19_GradientRowsMatchM ==
    /\ "gradients" \in DOMAIN eng => Rows(eng["gradients"]) = smp["M"]
    /\ ret.op \in {"estimation", "bootstrap"} => ret.err # IndexErrorRows

====
